---- MODULE Spec2Model ----
(***************************************************************************)
(* Model of the KvaserCAN channel session (src/kvaser_can.py): the three   *)
(* session fields, the caller-facing operations open/start/close/send/     *)
(* receive/scan_channels/monitor, the destructor, and the transport        *)
(* (CANAPI) seen as an oracle that answers every call with a status code.  *)
(* Each transport call is recorded with the session state at the moment of *)
(* the call.                                                               *)
(***************************************************************************)
EXTENDS Integers, Sequences, FiniteSets, TLC

VARIABLES
    is_initialized,   \* KvaserCAN.is_initialized
    is_started,       \* KvaserCAN.is_started
    channel,          \* KvaserCAN.channel
    mon,              \* stack of running monitor() activations (innermost last)
    handles,          \* transport side: successful api.init calls minus api.exit calls
    op,               \* the step just taken: name, inputs, state before, result, transport calls
    alive,            \* FALSE once the session object has been destroyed (__del__ has run)
    data,             \* the payload a caller hands to send
    sent,             \* the Messages the step just taken handed to api.write
    cuts              \* calls made by a callback that a KeyboardInterrupt cut short

vars == <<is_initialized, is_started, channel, mon, handles, op, alive, data, sent, cuts>>

----------------------------------------------------------------------------
\* Bounds of the model.

\* depth of monitor() activations when a callback calls monitor again
MaxNest == 2
\* frames one monitor() activation may count
MaxCount == 2
\* scan_channels on its own is called with max_channels in 0..MaxScan
MaxScan == 3
\* payloads handed to send have 0..MaxLen elements
MaxLen == 9
\* calls a KeyboardInterrupt may cut short in one life of the session
MaxCuts == 1

----------------------------------------------------------------------------
\* Program constants.

CANERR_NOERROR == 0
CANERR_RX_EMPTY == -30
CANERR_NOTINIT == -95
\* the longest payload of a CAN 2.0 frame
CAN_MAX_DLC == 8

\* a driver status that is neither success, RX-empty nor not-initialized
TransportFailure == {-99}

\* statuses the transport may answer a read with
Status == {CANERR_NOERROR, CANERR_RX_EMPTY} \cup TransportFailure

\* statuses the transport may answer the other calls with: the code only tells 0
\* from the rest
CallStatus == {CANERR_NOERROR} \cup TransportFailure

\* channel indices a caller passes to open
Channels == {0, 1}

\* durations a caller passes to monitor, in units of one poll timeout (100 ms)
Durations == {1, 2}

\* bit-rate indices named by the sources: -3 = 250 kbit/s (default), 0 = 1 Mbit/s,
\* -2 = 500 kbit/s
KnownPresets == {-3, -2, 0}

\* selectors a caller passes to start: two presets and one value outside the table
BitrateInputs == {-3, -2, 7}

\* elements of the payloads handed to send: two byte values and one int that is
\* no byte
ByteInputs == {1, 255, 256}

\* the identifier handed to send
MsgIds == {688}

\* max_channels a caller passes to scan_channels between the other operations
ScanSizes == {0, 1}

\* what api.test answers: (result, state), state 0 meaning present and free
ProbeAnswers == [result : {CANERR_NOERROR, -99}, state : {0, 1}]

Frames == {"f1"}
None == "None"

----------------------------------------------------------------------------
\* Session state.

Self == [is_initialized |-> is_initialized, is_started |-> is_started, channel |-> channel]

\* the session state of spec section 3 that the two flags encode
StateOf(s) ==
    IF s.is_started THEN "Started"
    ELSE IF s.is_initialized THEN "Initialized"
    ELSE "Closed"

\* one transport call: the function, the session state when it was issued, its
\* argument and the status the transport answered
Call(fn, s, arg, ret) == [fn |-> fn, at |-> StateOf(s), arg |-> arg, ret |-> ret]

Outcome(s, result, frame, calls) ==
    [self |-> s, result |-> result, frame |-> frame, calls |-> calls]

----------------------------------------------------------------------------
\* The handlers, as functions of the session fields, the inputs and the statuses
\* the transport answers with.

\* close that forgets the handle without releasing it when the stop step fails
close_leak_on_stop_error(s, rReset, rExit) ==
    IF s.is_started /\ rReset # CANERR_NOERROR
    THEN Outcome([s EXCEPT !.is_started = FALSE, !.is_initialized = FALSE, !.channel = -1],
                 rReset, None, <<Call("reset", s, 0, rReset)>>)
    ELSE LET s1 == [s EXCEPT !.is_started = FALSE] IN
         Outcome(IF s.is_initialized
                 THEN [s1 EXCEPT !.is_initialized = FALSE, !.channel = -1] ELSE s1,
                 IF s.is_initialized THEN rExit ELSE CANERR_NOERROR, None,
                 (IF s.is_started THEN <<Call("reset", s, 0, rReset)>> ELSE <<>>)
                 \o (IF s.is_initialized THEN <<Call("exit", s1, 0, rExit)>> ELSE <<>>))

\* close that calls api.exit without looking at is_initialized
close_always_exit(s, rReset, rExit) ==
    LET s1 == [s EXCEPT !.is_started = FALSE] IN
    Outcome([s1 EXCEPT !.is_initialized = FALSE, !.channel = -1], rExit, None,
            (IF s.is_started THEN <<Call("reset", s, 0, rReset)>> ELSE <<>>)
            \o <<Call("exit", s1, 0, rExit)>>)

\* close that returns as soon as the stop step fails
close_short_circuit(s, rReset, rExit) ==
    IF s.is_started /\ rReset # CANERR_NOERROR
    THEN Outcome([s EXCEPT !.is_started = FALSE], rReset, None,
                 <<Call("reset", s, 0, rReset)>>)
    ELSE LET s1 == [s EXCEPT !.is_started = FALSE] IN
         Outcome(IF s.is_initialized
                 THEN [s1 EXCEPT !.is_initialized = FALSE, !.channel = -1] ELSE s1,
                 IF s.is_initialized THEN rExit ELSE CANERR_NOERROR, None,
                 (IF s.is_started THEN <<Call("reset", s, 0, rReset)>> ELSE <<>>)
                 \o (IF s.is_initialized THEN <<Call("exit", s1, 0, rExit)>> ELSE <<>>))

\* close that leaves the channel index as it was
close_keeps_channel(s, rReset, rExit) ==
    Outcome([s EXCEPT !.is_started = FALSE, !.is_initialized = FALSE],
            IF s.is_initialized THEN rExit ELSE CANERR_NOERROR, None,
            (IF s.is_started THEN <<Call("reset", s, 0, rReset)>> ELSE <<>>)
            \o (IF s.is_initialized
                THEN <<Call("exit", [s EXCEPT !.is_started = FALSE], 0, rExit)>> ELSE <<>>))

close(s, rReset, rExit) ==
    LET stop    == s.is_started
        s1      == IF stop THEN [s EXCEPT !.is_started = FALSE] ELSE s
        result1 == IF stop THEN rReset ELSE CANERR_NOERROR
        calls1  == IF stop THEN <<Call("reset", s, 0, rReset)>> ELSE <<>>
        rel     == s1.is_initialized
        s2      == IF rel THEN [s1 EXCEPT !.is_initialized = FALSE, !.channel = -1] ELSE s1
        result2 == IF rel THEN rExit ELSE result1
        calls2  == IF rel THEN calls1 \o <<Call("exit", s1, 0, rExit)>> ELSE calls1
    IN  Outcome(s2, result2, None, calls2)

\* a destructor that tears down only a session that was started
del_only_if_started(s, rReset, rExit) ==
    IF s.is_started THEN close(s, rReset, rExit)
    ELSE Outcome(s, CANERR_NOERROR, None, <<>>)

\* __del__: the destructor calls close()
__del__(s, rReset, rExit) == close(s, rReset, rExit)

\* open that initializes without closing the binding it holds
open_no_close(s, ch, rReset, rExit, rInit) ==
    Outcome(IF rInit = CANERR_NOERROR
            THEN [s EXCEPT !.channel = ch, !.is_initialized = TRUE] ELSE s,
            rInit, None, <<Call("init", s, ch, rInit)>>)

\* open that records the channel index before it looks at the status of api.init
open_records_channel_first(s, ch, rReset, rExit, rInit) ==
    LET c  == IF s.is_initialized THEN close(s, rReset, rExit)
              ELSE Outcome(s, CANERR_NOERROR, None, <<>>)
        s1 == [c.self EXCEPT !.channel = ch]
        s2 == IF rInit = CANERR_NOERROR THEN [s1 EXCEPT !.is_initialized = TRUE] ELSE s1
    IN  Outcome(s2, rInit, None, c.calls \o <<Call("init", c.self, ch, rInit)>>)

open(s, ch, rReset, rExit, rInit) ==
    LET c  == IF s.is_initialized THEN close(s, rReset, rExit)
              ELSE Outcome(s, CANERR_NOERROR, None, <<>>)
        s1 == c.self
        s2 == IF rInit = CANERR_NOERROR
              THEN [s1 EXCEPT !.channel = ch, !.is_initialized = TRUE]
              ELSE s1
    IN  Outcome(s2, rInit, None, c.calls \o <<Call("init", s1, ch, rInit)>>)

\* start without the is_initialized check
start_no_guard(s, bitrate_index, rStart) ==
    Outcome(IF rStart = CANERR_NOERROR THEN [s EXCEPT !.is_started = TRUE] ELSE s,
            rStart, None, <<Call("start", s, bitrate_index, rStart)>>)

\* start that sets is_started to whether api.start succeeded
start_clears_on_failure(s, bitrate_index, rStart) ==
    IF ~s.is_initialized
    THEN Outcome(s, CANERR_NOTINIT, None, <<>>)
    ELSE Outcome([s EXCEPT !.is_started = (rStart = CANERR_NOERROR)],
                 rStart, None, <<Call("start", s, bitrate_index, rStart)>>)

start(s, bitrate_index, rStart) ==
    IF ~s.is_initialized
    THEN Outcome(s, CANERR_NOTINIT, None, <<>>)
    ELSE Outcome(IF rStart = CANERR_NOERROR THEN [s EXCEPT !.is_started = TRUE] ELSE s,
                 rStart, None, <<Call("start", s, bitrate_index, rStart)>>)

\* send that checks is_initialized where the code checks is_started
send_checks_initialized(s, rWrite) ==
    IF ~s.is_initialized
    THEN Outcome(s, CANERR_NOTINIT, None, <<>>)
    ELSE Outcome(s, rWrite, None, <<Call("write", s, 0, rWrite)>>)

send(s, rWrite) ==
    IF ~s.is_started
    THEN Outcome(s, CANERR_NOTINIT, None, <<>>)
    ELSE Outcome(s, rWrite, None, <<Call("write", s, 0, rWrite)>>)

\* bytes(data) raises ValueError unless every element is in range(256)
IsBytes(d) == \A i \in DOMAIN d : d[i] \in 0..255

\* send that sets the dlc from the payload's own length
send_message_keeps_length(msg_id, d, extended_id, remote_frame) ==
    [id |-> msg_id, dlc |-> Len(d),
     data |-> [i \in 1..CAN_MAX_DLC |-> IF i <= Len(d) THEN d[i] ELSE 0],
     xtd |-> IF extended_id THEN 1 ELSE 0, rtr |-> IF remote_frame THEN 1 ELSE 0,
     fdf |-> 0, brs |-> 0, esi |-> 0]

\* send: the Message built from a payload of bytes; Message() starts with all data
\* bytes 0, of which the model keeps the first CAN_MAX_DLC
send_message(msg_id, d, extended_id, remote_frame) ==
    LET long     == Len(d) > CAN_MAX_DLC
        data_len == IF long THEN CAN_MAX_DLC ELSE Len(d)
        cut      == IF long THEN SubSeq(d, 1, CAN_MAX_DLC) ELSE d
    IN  [id |-> msg_id, dlc |-> data_len,
         data |-> [i \in 1..CAN_MAX_DLC |-> IF i <= data_len THEN cut[i] ELSE 0],
         xtd |-> IF extended_id THEN 1 ELSE 0, rtr |-> IF remote_frame THEN 1 ELSE 0,
         fdf |-> 0, brs |-> 0, esi |-> 0]

\* send with its payload: the not-started return, the ValueError of bytes(data), or
\* the Message handed to api.write and the status api.write answers
send_data(s, msg_id, d, extended_id, remote_frame, rWrite) ==
    IF ~s.is_started
    THEN [out |-> send(s, rWrite), written |-> <<>>]
    ELSE IF ~IsBytes(d)
    THEN [out |-> Outcome(s, "ValueError", None, <<>>), written |-> <<>>]
    ELSE [out |-> send(s, rWrite),
          written |-> <<send_message(msg_id, d, extended_id, remote_frame)>>]

\* api.read answers (status, message); the message is None unless the status is 0
ReadMsg(rRead, frame) == IF rRead = CANERR_NOERROR THEN frame ELSE None

receive(s, timeout, rRead, frame) ==
    IF ~s.is_started
    THEN Outcome(s, CANERR_NOTINIT, None, <<>>)
    ELSE Outcome(s, rRead, ReadMsg(rRead, frame), <<Call("read", s, timeout, rRead)>>)

\* scan_channels that takes the status of api.test for the state of the channel
RECURSIVE scan_by_result(_, _, _, _)
scan_by_result(s, first, max_channels, probes) ==
    IF first >= max_channels THEN Outcome(s, <<>>, None, <<>>)
    ELSE LET rest == scan_by_result(s, first + 1, max_channels, probes)
             p    == probes[first + 1]
         IN  Outcome(s, (IF p.result = 0 THEN <<first>> ELSE <<>>) \o rest.result, None,
                     <<Call("test", s, first, p)>> \o rest.calls)

\* scan_channels: the loop over range(max_channels) from index first on; probes[i+1]
\* is what api.test answers for channel i
RECURSIVE scan_from(_, _, _, _)
scan_from(s, first, max_channels, probes) ==
    IF first >= max_channels THEN Outcome(s, <<>>, None, <<>>)
    ELSE LET rest == scan_from(s, first + 1, max_channels, probes)
             p    == probes[first + 1]
         IN  Outcome(s, (IF p.state = 0 THEN <<first>> ELSE <<>>) \o rest.result, None,
                     <<Call("test", s, first, p)>> \o rest.calls)

scan_channels(s, max_channels, probes) == scan_from(s, 0, max_channels, probes)

\* monitor: the not-started check and the loop's initial state
monitor_enter(s, duration, has_cb) ==
    IF ~s.is_started
    THEN [entered |-> FALSE, result |-> CANERR_NOTINIT, activation |-> None]
    ELSE [entered |-> TRUE, result |-> 0,
          activation |-> [duration |-> duration, elapsed |-> 0, msg_count |-> 0,
                          has_cb |-> has_cb, pc |-> "loop",
                          \* the status of the last api.read
                          pending |-> CANERR_NOERROR,
                          \* bookkeeping: reads that answered 0, callback invocations,
                          \* and whether time passed while the callback ran
                          ok_polls |-> 0, delivered |-> 0, cb_took_time |-> FALSE]]

\* monitor whose loop never looks at the clock
monitor_running_forever(a) == TRUE

\* monitor: the loop condition, (time.time() - start_time) < duration
monitor_running(a) == a.elapsed < a.duration

\* monitor: api.read(timeout=100) has returned (line 316) and its status has not
\* been looked at yet; s is the session as it is at that moment
monitor_read(a, s, rRead, frame) ==
    [activation |-> [a EXCEPT !.pc = "read", !.pending = rRead,
                              !.ok_polls = @ + (IF rRead = CANERR_NOERROR THEN 1 ELSE 0)],
     msg |-> ReadMsg(rRead, frame), calls |-> <<Call("read", s, 100, rRead)>>]

\* monitor whose loop goes on after a read that failed
monitor_iter_ignores_errors(a) ==
    IF a.pending = CANERR_NOERROR
    THEN [activation |-> [a EXCEPT !.msg_count = a.msg_count + 1,
                                   !.pc = IF a.has_cb THEN "counted" ELSE "loop"],
          returns |-> FALSE]
    ELSE [activation |-> [a EXCEPT !.pc = "loop"], returns |-> FALSE]

\* monitor that counts a frame only after its callback has said to go on
monitor_iter_counts_late(a) ==
    IF a.pending = CANERR_NOERROR
    THEN [activation |-> [a EXCEPT !.msg_count = a.msg_count + (IF a.has_cb THEN 0 ELSE 1),
                                   !.pc = IF a.has_cb THEN "counted" ELSE "loop"],
          returns |-> FALSE]
    ELSE IF a.pending # CANERR_RX_EMPTY
    THEN [activation |-> a, returns |-> TRUE]
    ELSE [activation |-> [a EXCEPT !.pc = "loop"], returns |-> FALSE]

\* monitor: the branch on the status of the read (lines 318-328), for activation
\* a.  A read that answered 0 is counted; with a callback the frame is then to be
\* handed to it, without one the loop goes on.  Any status but RX-empty breaks.
monitor_iter(a) ==
    IF a.pending = CANERR_NOERROR
    THEN [activation |-> [a EXCEPT !.msg_count = a.msg_count + 1,
                                   !.pc = IF a.has_cb THEN "counted" ELSE "loop"],
          returns |-> FALSE]
    ELSE IF a.pending # CANERR_RX_EMPTY
    THEN [activation |-> a, returns |-> TRUE]
    ELSE [activation |-> [a EXCEPT !.pc = "loop"], returns |-> FALSE]

\* monitor: callback(msg) is called (line 324)
monitor_deliver(a) == [a EXCEPT !.delivered = a.delivered + 1, !.pc = "cb"]

\* time.time() moves on by dt for every running activation; the model stops
\* counting an activation's time two ticks past its duration
Elapse(stack, dt) ==
    [i \in DOMAIN stack |->
        [stack[i] EXCEPT !.elapsed = IF @ + dt > stack[i].duration + 2
                                     THEN stack[i].duration + 2 ELSE @ + dt,
                         !.cb_took_time = @ \/ (stack[i].pc = "cb" /\ dt > 0)]]

\* monitor whose except clause tears the session down
monitor_interrupt_closes(a, s) ==
    Outcome([s EXCEPT !.is_started = FALSE, !.is_initialized = FALSE, !.channel = -1],
            a.msg_count, None, <<>>)

\* monitor: KeyboardInterrupt raised inside the try block is swallowed and the
\* count so far returned
monitor_interrupt(a, s) == Outcome(s, a.msg_count, None, <<>>)

----------------------------------------------------------------------------
\* The handlers cut short.  A KeyboardInterrupt is raised between two statements;
\* a transport call that has begun runs to its end first.  For each handler, the
\* session fields and the transport calls made after each of its statements that
\* assigns a field or calls the transport: what is left when the handler is cut
\* there.

Point(s, calls) == [self |-> s, calls |-> calls]

\* close: after api.reset, after is_started = False, after api.exit, after
\* is_initialized = False, after channel = -1
close_points(s, rReset, rExit) ==
    LET s1 == [s EXCEPT !.is_started = FALSE]
        c1 == IF s.is_started THEN <<Call("reset", s, 0, rReset)>> ELSE <<>>
        c2 == c1 \o <<Call("exit", s1, 0, rExit)>>
        s2 == [s1 EXCEPT !.is_initialized = FALSE]
    IN  (IF s.is_started THEN <<Point(s, c1), Point(s1, c1)>> ELSE <<>>)
        \o (IF s.is_initialized
            THEN <<Point(s1, c2), Point(s2, c2), Point([s2 EXCEPT !.channel = -1], c2)>>
            ELSE <<>>)

\* open: the points of its close(), then after api.init, after channel = channel,
\* after is_initialized = True
open_points(s, ch, rReset, rExit, rInit) ==
    LET c  == IF s.is_initialized THEN close(s, rReset, rExit)
              ELSE Outcome(s, CANERR_NOERROR, None, <<>>)
        ci == c.calls \o <<Call("init", c.self, ch, rInit)>>
        s1 == [c.self EXCEPT !.channel = ch]
    IN  (IF s.is_initialized THEN close_points(s, rReset, rExit) ELSE <<>>)
        \o <<Point(c.self, ci)>>
        \o (IF rInit = CANERR_NOERROR
            THEN <<Point(s1, ci), Point([s1 EXCEPT !.is_initialized = TRUE], ci)>>
            ELSE <<>>)

\* start: after api.start, after is_started = True
start_points(s, bitrate_index, rStart) ==
    LET c == <<Call("start", s, bitrate_index, rStart)>> IN
    IF ~s.is_initialized THEN <<>>
    ELSE <<Point(s, c)>>
         \o (IF rStart = CANERR_NOERROR THEN <<Point([s EXCEPT !.is_started = TRUE], c)>>
             ELSE <<>>)

\* send: after api.write, which is reached only by a started session with a
\* payload of bytes (bytes(data) raises ValueError before it otherwise)
send_points(s, d, rWrite) ==
    IF ~s.is_started \/ ~IsBytes(d) THEN <<>>
    ELSE <<Point(s, <<Call("write", s, 0, rWrite)>>)>>

\* receive: after api.read
receive_points(s, timeout, rRead) ==
    IF ~s.is_started THEN <<>> ELSE <<Point(s, <<Call("read", s, timeout, rRead)>>)>>

\* scan_channels: after each api.test
scan_points(s, max_channels, probes) ==
    [n \in 1..max_channels |-> Point(s, scan_from(s, 0, n, probes).calls)]

----------------------------------------------------------------------------
\* Transport-side bookkeeping: a successful api.init binds a handle, every api.exit
\* releases one.

IsInitOk(c) == c.fn = "init" /\ c.ret = CANERR_NOERROR
IsExit(c) == c.fn = "exit"

NumInitOk(calls) == Cardinality({i \in DOMAIN calls : IsInitOk(calls[i])})
NumExit(calls) == Cardinality({i \in DOMAIN calls : IsExit(calls[i])})

HandlesAfter(h, calls) == h + NumInitOk(calls) - NumExit(calls)

----------------------------------------------------------------------------
\* Who may call the session: the top-level caller when no monitor() is running, or
\* the callback of the innermost monitor() while it runs.

Top == mon[Len(mon)]
CanCall == alive /\ (IF mon = <<>> THEN TRUE ELSE Top.pc = "cb")

\* the statuses the transport can answer a call with, if the call is made at all
Answers(called) == IF called THEN CallStatus ELSE {CANERR_NOERROR}

\* the same for a read
ReadAnswers(called) == IF called THEN Status ELSE {CANERR_NOERROR}

\* the effect of a step on the session fields and the transport, and its record:
\* how tells the ways a monitor() activation ends apart
\* has_cb, ok_polls and delivered are those of the monitor() activation that the
\* step ends, FALSE and 0 in every other step
FinishWith(name, how, arg, o, has_cb, ok_polls, delivered) ==
    /\ is_initialized' = o.self.is_initialized
    /\ is_started' = o.self.is_started
    /\ channel' = o.self.channel
    /\ handles' = HandlesAfter(handles, o.calls)
    /\ op' = [name |-> name, how |-> how, pre |-> StateOf(Self), arg |-> arg,
              result |-> o.result, frame |-> o.frame, calls |-> o.calls,
              has_cb |-> has_cb, ok_polls |-> ok_polls, delivered |-> delivered]

Finish(name, how, arg, o) == FinishWith(name, how, arg, o, FALSE, 0, 0)

StepHow(name, how, arg, o) ==
    /\ Finish(name, how, arg, o)
    /\ sent' = <<>>
    /\ UNCHANGED <<alive, data, cuts>>

\* a step in which the innermost monitor() returns
Return(how, o) ==
    /\ mon' = SubSeq(mon, 1, Len(mon) - 1)
    /\ FinishWith("monitor", how, Top.duration, o, Top.has_cb, Top.ok_polls, Top.delivered)
    /\ sent' = <<>>
    /\ UNCHANGED <<alive, data, cuts>>

Step(name, arg, o) == StepHow(name, "call", arg, o)

Init ==
    /\ is_initialized = FALSE
    /\ is_started = FALSE
    /\ channel = -1
    /\ mon = <<>>
    /\ handles = 0
    /\ op = [name |-> "__init__", how |-> "call", pre |-> "Closed", arg |-> 0,
             result |-> CANERR_NOERROR, frame |-> None, calls |-> <<>>,
             has_cb |-> FALSE, ok_polls |-> 0, delivered |-> 0]
    /\ alive = TRUE
    /\ data = <<>>
    /\ sent = <<>>
    /\ cuts = 0

CallOpen ==
    /\ CanCall
    /\ \E ch \in Channels, rReset \in Answers(is_started), rExit \in Answers(is_initialized),
          rInit \in CallStatus :
          Step("open", ch, open(Self, ch, rReset, rExit, rInit))
    /\ UNCHANGED mon

CallStart ==
    /\ CanCall
    /\ \E idx \in BitrateInputs, rStart \in Answers(is_initialized) :
          Step("start", idx, start(Self, idx, rStart))
    /\ UNCHANGED mon

CallClose ==
    /\ CanCall
    /\ \E rReset \in Answers(is_started), rExit \in Answers(is_initialized) :
          Step("close", 0, close(Self, rReset, rExit))
    /\ UNCHANGED mon

\* send(msg_id, data, extended_id, remote_frame) with the payload the caller holds
CallSend ==
    /\ CanCall
    /\ \E msg_id \in MsgIds, extended_id \in BOOLEAN, remote_frame \in BOOLEAN,
          rWrite \in Answers(is_started /\ IsBytes(data)) :
          LET r == send_data(Self, msg_id, data, extended_id, remote_frame, rWrite) IN
          /\ Finish("send", "call", msg_id, r.out)
          /\ sent' = r.written
    /\ UNCHANGED <<mon, alive, data, cuts>>

CallReceive ==
    /\ CanCall
    /\ \E rRead \in ReadAnswers(is_started), frame \in Frames :
          Step("receive", 0, receive(Self, 1000, rRead, frame))
    /\ UNCHANGED mon

CallScan ==
    /\ CanCall
    /\ \E max_channels \in ScanSizes :
          \E probes \in [1..max_channels -> ProbeAnswers] :
             Step("scan", max_channels, scan_channels(Self, max_channels, probes))
    /\ UNCHANGED mon

\* monitor(duration, callback), up to the first evaluation of the loop condition:
\* the not-started early return, or a new activation with msg_count = 0 and the
\* clock started.
MonitorTo(depth) ==
    /\ CanCall
    /\ \E duration \in Durations, has_cb \in BOOLEAN :
          LET e == monitor_enter(Self, duration, has_cb) IN
          /\ e.entered => Len(mon) < depth
          /\ mon' = IF e.entered THEN Append(mon, e.activation) ELSE mon
          /\ Step(IF e.entered THEN "monitor.enter" ELSE "monitor", duration,
                  Outcome(Self, e.result, None, <<>>))

\* monitor called by the top-level caller, or by a callback on a session that is
\* not started
CallMonitor == MonitorTo(1)

\* monitor called by the top-level caller or by a callback
CallMonitorNested == MonitorTo(MaxNest)

\* monitor's loop condition holds and api.read is called with the 100 ms poll
\* timeout.  dt is the time the read blocked for, in poll timeouts; an RX-empty
\* answer means the timeout ran out.
MonitorPoll ==
    /\ mon # <<>>
    /\ Top.pc = "loop"
    /\ monitor_running(Top)
    /\ \E rRead \in Status, frame \in Frames, dt \in 0..1 :
          LET rd   == monitor_read(Elapse(<<Top>>, dt)[1], Self, rRead, frame)
              rest == Elapse(SubSeq(mon, 1, Len(mon) - 1), dt)
          IN
          /\ rRead = CANERR_RX_EMPTY => dt = 1
          /\ rRead = CANERR_NOERROR => Top.msg_count < MaxCount
          /\ mon' = rest \o <<rd.activation>>
          /\ StepHow("monitor.poll", "call", Top.duration,
                     Outcome(Self, Top.msg_count, rd.msg, rd.calls))

\* the branch on the status of the read: count the frame, go on, or break and
\* return msg_count
MonitorBranch ==
    /\ mon # <<>>
    /\ Top.pc = "read"
    /\ LET it == monitor_iter(Top) IN
       IF it.returns
       THEN Return("read_error", Outcome(Self, it.activation.msg_count, None, <<>>))
       ELSE /\ mon' = [mon EXCEPT ![Len(mon)] = it.activation]
            /\ StepHow("monitor.branch", "call", Top.duration,
                       Outcome(Self, it.activation.msg_count, None, <<>>))

\* the frame just counted is handed to the callback
MonitorDeliver ==
    /\ mon # <<>>
    /\ Top.pc = "counted"
    /\ mon' = [mon EXCEPT ![Len(mon)] = monitor_deliver(Top)]
    /\ StepHow("monitor.deliver", "call", Top.duration,
               Outcome(Self, Top.msg_count, None, <<>>))

\* the loop condition evaluated false: monitor returns msg_count
MonitorExpire ==
    /\ mon # <<>>
    /\ Top.pc = "loop"
    /\ ~monitor_running(Top)
    /\ Return("expired", Outcome(Self, Top.msg_count, None, <<>>))

\* the callback returns: False breaks the loop and monitor returns msg_count
CallbackReturn ==
    /\ mon # <<>>
    /\ Top.pc = "cb"
    /\ \E go_on \in BOOLEAN :
          IF go_on
          THEN /\ mon' = [mon EXCEPT ![Len(mon)].pc = "loop"]
               /\ StepHow("callback", "call", Top.duration,
                          Outcome(Self, Top.msg_count, None, <<>>))
          ELSE Return("callback_false", Outcome(Self, Top.msg_count, None, <<>>))

\* the calls a callback can make and the points they can be cut at, as
\* (method, point, Messages handed to api.write)
Range(f) == {f[i] : i \in DOMAIN f}

CutAt(method, points, written) ==
    {[method |-> method, point |-> p, written |-> written] : p \in points}

CallCuts(s, d) ==
    UNION (
      {CutAt("close", Range(close_points(s, rReset, rExit)), <<>>) :
          rReset \in Answers(s.is_started), rExit \in Answers(s.is_initialized)}
      \cup
      {CutAt("open", Range(open_points(s, ch, rReset, rExit, rInit)), <<>>) :
          ch \in Channels, rReset \in Answers(s.is_started),
          rExit \in Answers(s.is_initialized), rInit \in CallStatus}
      \cup
      {CutAt("start", Range(start_points(s, idx, rStart)), <<>>) :
          idx \in BitrateInputs, rStart \in Answers(s.is_initialized)}
      \cup
      {CutAt("send", Range(send_points(s, d, rWrite)),
             send_data(s, msg_id, d, extended_id, remote_frame, rWrite).written) :
          msg_id \in MsgIds, extended_id \in BOOLEAN, remote_frame \in BOOLEAN,
          rWrite \in Answers(s.is_started /\ IsBytes(d))}
      \cup
      {CutAt("receive", Range(receive_points(s, 1000, rRead)), <<>>) :
          rRead \in ReadAnswers(s.is_started)}
      \cup
      UNION {{CutAt("scan", Range(scan_points(s, n, probes)), <<>>) :
                 probes \in [1..n -> ProbeAnswers]} : n \in ScanSizes})

\* a KeyboardInterrupt is raised inside a call that the callback of the innermost
\* monitor() makes: the call is left at one of its points and the exception is on
\* its way to monitor's except clause
CallInterrupted ==
    /\ CanCall
    /\ mon # <<>>
    /\ cuts < MaxCuts
    /\ \E c \in CallCuts(Self, data) :
          /\ Finish("KeyboardInterrupt", c.method, 0,
                    Outcome(c.point.self, 0, None, c.point.calls))
          /\ sent' = c.written
    /\ mon' = [mon EXCEPT ![Len(mon)].pc = "raised"]
    /\ cuts' = cuts + 1
    /\ UNCHANGED <<alive, data>>

\* a KeyboardInterrupt reaches the except clause of the innermost running
\* monitor(): raised at any point of its loop, in its callback, or in a call the
\* callback made
Interrupt ==
    /\ mon # <<>>
    /\ Return("interrupt", monitor_interrupt(Top, Self))

\* the last reference to the session goes away: no method of it is running
Destroy ==
    /\ CanCall
    /\ mon = <<>>
    /\ \E rReset \in Answers(is_started), rExit \in Answers(is_initialized) :
          Finish("__del__", "call", 0, __del__(Self, rReset, rExit))
    /\ alive' = FALSE
    /\ sent' = <<>>
    /\ UNCHANGED <<mon, data, cuts>>

Next ==
    \/ CallOpen
    \/ CallStart
    \/ CallClose
    \/ CallSend
    \/ CallReceive
    \/ CallScan
    \/ CallMonitor
    \/ MonitorPoll
    \/ MonitorBranch
    \/ MonitorDeliver
    \/ MonitorExpire
    \/ CallbackReturn
    \/ CallInterrupted
    \/ Interrupt
    \/ Destroy

Spec == Init /\ [][Next]_vars

----------------------------------------------------------------------------
\* scan_channels on its own: a session in any of the states open, start and close
\* leave it in, and a caller that scans.

InitScan ==
    /\ \E s \in {"Closed", "Initialized", "Started"}, ch \in Channels :
          /\ is_initialized = (s # "Closed")
          /\ is_started = (s = "Started")
          /\ channel = IF s = "Closed" THEN -1 ELSE ch
          /\ handles = IF s = "Closed" THEN 0 ELSE 1
    /\ mon = <<>>
    /\ op = [name |-> "__init__", how |-> "call", pre |-> "Closed", arg |-> 0,
             result |-> CANERR_NOERROR, frame |-> None, calls |-> <<>>,
             has_cb |-> FALSE, ok_polls |-> 0, delivered |-> 0]
    /\ alive = TRUE
    /\ data = <<>>
    /\ sent = <<>>
    /\ cuts = 0

ScanAny ==
    /\ CanCall
    /\ \E max_channels \in 0..MaxScan :
          \E probes \in [1..max_channels -> ProbeAnswers] :
             Step("scan", max_channels, scan_channels(Self, max_channels, probes))
    /\ UNCHANGED mon

NextScan == ScanAny

SpecScan == InitScan /\ [][NextScan]_vars

----------------------------------------------------------------------------
\* monitor on its own: a session that was opened and started, a caller
\* that calls monitor again and again, and callbacks that do nothing but return.
\* The loop of a running monitor() goes on by itself and a callback returns, which
\* is what the fairness conditions say.

InitMonitor ==
    /\ is_initialized = TRUE
    /\ is_started = TRUE
    /\ channel \in Channels
    /\ mon = <<>>
    /\ handles = 1
    /\ op = [name |-> "start", how |-> "call", pre |-> "Initialized", arg |-> -3,
             result |-> CANERR_NOERROR, frame |-> None,
             calls |-> <<[fn |-> "start", at |-> "Initialized", arg |-> -3,
                          ret |-> CANERR_NOERROR]>>,
             has_cb |-> FALSE, ok_polls |-> 0, delivered |-> 0]
    /\ alive = TRUE
    /\ data = <<>>
    /\ sent = <<>>
    /\ cuts = 0

CallMonitorTop ==
    /\ mon = <<>>
    /\ CallMonitor

NextMonitor ==
    \/ CallMonitorTop
    \/ MonitorPoll
    \/ MonitorBranch
    \/ MonitorDeliver
    \/ MonitorExpire
    \/ CallbackReturn
    \/ Interrupt

SpecMonitor ==
    /\ InitMonitor
    /\ [][NextMonitor]_vars
    /\ WF_vars(MonitorPoll)
    /\ WF_vars(MonitorBranch)
    /\ WF_vars(MonitorDeliver)
    /\ WF_vars(MonitorExpire)
    /\ WF_vars(CallbackReturn)

----------------------------------------------------------------------------
\* monitor with callbacks that call monitor again, and KeyboardInterrupts: a
\* session that was opened and started.

NextNested ==
    \/ CallMonitorNested
    \/ MonitorPoll
    \/ MonitorBranch
    \/ MonitorDeliver
    \/ MonitorExpire
    \/ CallbackReturn
    \/ Interrupt

SpecNested == InitMonitor /\ [][NextNested]_vars

----------------------------------------------------------------------------
\* send on its own: a session that was opened on channel 0, started or not, and a
\* caller that hands it a payload.

Payloads == UNION {[1..n -> ByteInputs] : n \in 0..MaxLen}

InitSend ==
    /\ is_initialized = TRUE
    /\ is_started \in BOOLEAN
    /\ channel = 0
    /\ mon = <<>>
    /\ handles = 1
    /\ op = [name |-> "open", how |-> "call", pre |-> "Closed", arg |-> 0,
             result |-> CANERR_NOERROR, frame |-> None,
             calls |-> <<[fn |-> "init", at |-> "Closed", arg |-> 0, ret |-> CANERR_NOERROR]>>,
             has_cb |-> FALSE, ok_polls |-> 0, delivered |-> 0]
    /\ alive = TRUE
    /\ data \in Payloads
    /\ sent = <<>>
    /\ cuts = 0

NextSend == CallSend

SpecSend == InitSend /\ [][NextSend]_vars

----------------------------------------------------------------------------
\* Properties.

\* the transport functions called by a step, in order
Fns(calls) == [i \in DOMAIN calls |-> calls[i].fn]

Closed == ~is_initialized /\ ~is_started /\ channel = -1

\* every call made on the session so far ran to its return, as the sequential
\* transitions of spec section 5 do: no KeyboardInterrupt has cut one short
Whole == cuts = 0

\* C1: send and receive on a session that is not Started return -95 (receive with
\* no frame) and make no transport call.
C1_NotStartedNoTransport ==
    (op.name \in {"send", "receive"} /\ op.pre # "Started")
        => (op.result = CANERR_NOTINIT /\ op.frame = None /\ op.calls = <<>>)

C1_Witness ==
    /\ op.name = "send"
    /\ op.pre = "Initialized"
    /\ op.result = CANERR_NOTINIT
    /\ handles = 1

\* C2: the transport's read and write are invoked only while the session is
\* Started, the polls of monitor's loop included.
C2_IoOnlyWhileStarted ==
    \A i \in DOMAIN op.calls :
        op.calls[i].fn \in {"read", "write"} => op.calls[i].at = "Started"

\* C3 as stated: open on an Initialized or Started session makes the transport see
\* stop, release, initialize, in this order.
C3_StopReleaseBeforeInit ==
    (op.name = "open" /\ op.pre \in {"Initialized", "Started"})
        => Fns(op.calls) = <<"reset", "exit", "init">>

\* C3 amended: open on a Started session makes the transport see stop, release,
\* initialize; on an Initialized session release, initialize; in both cases
\* initialize is issued with the session Closed and no handle bound.  (For a
\* session whose calls all ran to their return.)
C3_ReleaseBeforeInit ==
    (Whole /\ op.name = "open" /\ op.pre \in {"Initialized", "Started"})
        => /\ Fns(op.calls) = IF op.pre = "Started" THEN <<"reset", "exit", "init">>
                              ELSE <<"exit", "init">>
           /\ op.calls[Len(op.calls)].at = "Closed"
           /\ handles = IF op.result = CANERR_NOERROR THEN 1 ELSE 0

C3_Witness ==
    /\ op.name = "open"
    /\ op.pre = "Started"
    /\ Len(op.calls) = 3
    /\ op.result = CANERR_NOERROR
    /\ is_initialized

\* C4: every successful initialize is matched by exactly one release: a handle is
\* bound exactly while the session is initialized, and a step issues api.exit once
\* when it takes the session out of Initialized/Started (close, open's implicit
\* close, or the destructor's close) and not at all otherwise, whatever statuses
\* stop and the I/O returned.  The sequences are of calls that ran to their return.
C4_ReleaseExactlyOnce ==
    Whole
        => /\ handles = IF is_initialized THEN 1 ELSE 0
           /\ NumExit(op.calls) =
                 IF op.name \in {"open", "close", "__del__"} /\ op.pre # "Closed"
                 THEN 1 ELSE 0

C4_Witness ==
    /\ op.name = "close"
    /\ op.pre = "Started"
    /\ op.calls[1].ret # CANERR_NOERROR
    /\ NumExit(op.calls) = 1
    /\ handles = 0

\* C5: close on a Closed session makes no transport call, leaves it Closed with
\* channel -1 and returns 0; a close that directly follows a close that returned 0
\* returns 0 too.  (Closed is the state a close that ran to its return leaves.)
C5_CloseIdempotent ==
    /\ [](Whole /\ op.name = "close" /\ op.pre = "Closed"
            => op.calls = <<>> /\ Closed /\ op.result = CANERR_NOERROR)
    /\ [][(Whole /\ op.name = "close" /\ op.result = CANERR_NOERROR /\ op'.name = "close")
            => (op'.result = CANERR_NOERROR /\ op'.calls = <<>>)]_vars

C5_Witness ==
    /\ op.name = "close"
    /\ op.pre = "Closed"
    /\ op.result = CANERR_NOERROR
    /\ mon = <<>>

\* C6: close from Started calls stop then release even when stop fails, from
\* Initialized release only, and always leaves the session Closed with channel -1.
\* (From the states that calls which ran to their return leave the session in.)
C6_CloseCompletes ==
    (Whole /\ op.name = "close")
        => /\ Fns(op.calls) = CASE op.pre = "Started" -> <<"reset", "exit">>
                                [] op.pre = "Initialized" -> <<"exit">>
                                [] OTHER -> <<>>
           /\ Closed

C6_Witness ==
    /\ op.name = "close"
    /\ op.pre = "Started"
    /\ Len(op.calls) = 2
    /\ op.calls[1].ret # CANERR_NOERROR
    /\ op.calls[2].ret # CANERR_NOERROR
    /\ Closed

\* the last non-zero status among the answers to a step's transport calls, 0 if none
RECURSIVE LastNonZero(_)
LastNonZero(calls) ==
    IF calls = <<>> THEN CANERR_NOERROR
    ELSE IF calls[Len(calls)].ret # CANERR_NOERROR THEN calls[Len(calls)].ret
    ELSE LastNonZero(SubSeq(calls, 1, Len(calls) - 1))

\* C7: close returns the last non-zero status of its stop and release steps, and 0
\* only if every step it executed returned 0.
C7_CloseReturnsLastNonZero ==
    op.name = "close" => op.result = LastNonZero(op.calls)

\* C8: start with a selector outside the preset set returns an error without
\* invoking the transport's start, and the session does not become Started.
C8_InvalidBitrateRejected ==
    (op.name = "start" /\ op.arg \notin KnownPresets)
        => /\ op.result < 0
           /\ op.calls = <<>>
           /\ (op.pre # "Started" => ~is_started)

\* C9: start on a Closed session returns -95 without invoking the transport and
\* leaves the session Closed.  (Closed as left by calls that ran to their return.)
C9_StartWhenClosed ==
    (Whole /\ op.name = "start" /\ op.pre = "Closed")
        => (op.result = CANERR_NOTINIT /\ op.calls = <<>> /\ Closed)

C9_Witness ==
    /\ op.name = "start"
    /\ op.pre = "Closed"
    /\ op.result = CANERR_NOTINIT
    /\ mon # <<>>

\* C10: when api.init answers a non-zero status, open returns that status and the
\* session is Closed afterwards, whatever state it was in before.  (The states
\* are those that calls which ran to their return leave the session in.)
C10_OpenFailure ==
    (Whole /\ op.name = "open" /\ op.calls[Len(op.calls)].ret # CANERR_NOERROR)
        => (op.result = op.calls[Len(op.calls)].ret /\ Closed)

C10_Witness ==
    /\ op.name = "open"
    /\ op.pre = "Started"
    /\ op.calls[Len(op.calls)].fn = "init"
    /\ op.calls[Len(op.calls)].ret = -99
    /\ op.result = -99
    /\ Closed

Min(a, b) == IF a < b THEN a ELSE b

\* C11: for a payload of bytes passed to send on a Started session, the Message
\* handed to api.write has dlc = min(len(data), 8) and its first dlc data bytes are
\* the first dlc bytes of the payload; the call is not rejected, it returns the
\* status of api.write.
C11_PayloadTruncated ==
    (op.name = "send" /\ op.pre = "Started" /\ IsBytes(data))
        => /\ Len(sent) = 1
           /\ sent[1].dlc = Min(Len(data), 8)
           /\ \A i \in 1..sent[1].dlc : sent[1].data[i] = data[i]
           /\ Fns(op.calls) = <<"write">>
           /\ op.result = op.calls[1].ret

C11_Witness ==
    /\ op.name = "send"
    /\ op.pre = "Started"
    /\ Len(data) = 9
    /\ data[8] = 1
    /\ data[9] = 255
    /\ Len(sent) = 1
    /\ sent[1].dlc = 8
    /\ sent[1].data[8] = 1

\* C12: scan(max_channels) probes 0..max_channels-1 once each in ascending order
\* and returns the ascending sequence of the indices whose probe reported state 0
\* (empty when none did); it changes neither the session state nor the channel
\* index.
C12_ScanAscending ==
    /\ [](op.name = "scan"
            => /\ Len(op.calls) = op.arg
               /\ \A i \in DOMAIN op.calls :
                     op.calls[i].fn = "test" /\ op.calls[i].arg = i - 1
               /\ \A i, j \in DOMAIN op.result : i < j => op.result[i] < op.result[j]
               /\ {op.result[i] : i \in DOMAIN op.result}
                     = {op.calls[i].arg : i \in {k \in DOMAIN op.calls : op.calls[k].ret.state = 0}})
    /\ [][op'.name = "scan"
            => UNCHANGED <<is_initialized, is_started, channel, handles, mon>>]_vars

C12_Witness ==
    /\ op.name = "scan"
    /\ op.pre = "Started"
    /\ op.arg = 3
    /\ op.calls[1].ret.state = 0
    /\ op.calls[2].ret.state = 1
    /\ op.calls[2].ret.result = 0
    /\ op.calls[3].ret.state = 0
    /\ op.calls[3].ret.result # 0
    /\ op.result = <<0, 2>>
    /\ is_started
    /\ channel = 1

\* a step in which a running monitor() calls api.read
IsPoll == mon # <<>> /\ op'.name = "monitor.poll"

\* a step in which the innermost monitor() returns
IsMonitorReturn == mon # <<>> /\ op'.name = "monitor" /\ Len(mon') = Len(mon) - 1

\* C13: when the callback returns false monitoring ends in that step, with no
\* further read, and the count returned includes the frame just delivered (1 if it
\* was the first frame).
C13_CallbackStops ==
    [][op'.how = "callback_false"
        => /\ IsMonitorReturn
           /\ Top.pc = "cb"
           /\ op'.calls = <<>>
           /\ op'.result = Top.ok_polls
           /\ op'.result = Top.delivered
           /\ op'.result >= 1]_vars

C13_Witness ==
    /\ op.name = "monitor"
    /\ op.how = "callback_false"
    /\ op.result = 1
    /\ op.delivered = 1
    /\ op.arg = 2
    /\ Len(mon) = 1
    /\ mon[1].pc = "cb"
    /\ mon[1].elapsed < mon[1].duration

\* C14: once a read has answered a status that is neither 0 nor RX-empty, the next
\* step of that monitor() is its return, with no further read, and the value
\* returned is the count of the frames counted before it, not the status.
C14_ReadErrorStops ==
    [][(mon # <<>> /\ Top.pc = "read" /\ Top.pending \notin {CANERR_NOERROR, CANERR_RX_EMPTY})
        => /\ IsMonitorReturn
           /\ op'.how \in {"read_error", "interrupt"}
           /\ op'.calls = <<>>
           /\ op'.result = Top.msg_count
           /\ op'.result = Top.ok_polls
           /\ op'.result >= 0]_vars

C14_Witness ==
    /\ op.name = "monitor"
    /\ op.how = "read_error"
    /\ op.result = 1
    /\ op.ok_polls = 1
    /\ mon = <<>>

\* C15: the value monitor returns is the number of polls whose read answered 0 and,
\* with a callback, the number of callback invocations.
C15_CountIsDelivered ==
    (op.name = "monitor" /\ op.how # "call")
        => (op.result = op.ok_polls /\ (op.has_cb => op.result = op.delivered))

\* C16: a KeyboardInterrupt raised at any point of monitor's loop, in the callback
\* or in a call the callback makes, ends the loop; monitor returns the count so
\* far as its value and the session fields are as they were when it was raised.
C16_InterruptReturnsCount ==
    /\ [][op'.how = "interrupt"
            => /\ IsMonitorReturn
               /\ op'.result = Top.msg_count
               /\ op'.calls = <<>>
               /\ UNCHANGED <<is_initialized, is_started, channel, handles, alive>>]_vars
    /\ [][(mon # <<>> /\ Top.pc = "raised") => op'.how = "interrupt"]_vars
    /\ [](mon # <<>> => ENABLED Interrupt)

C16_Witness ==
    /\ op.name = "monitor"
    /\ op.how = "interrupt"
    /\ op.has_cb
    /\ op.result = 1
    /\ op.delivered = 0
    /\ op.pre = "Started"
    /\ is_started
    /\ channel = 0

\* C18: monitor issues a read only while elapsed < duration and with the 100 ms
\* poll timeout; when no time passes in its callback its elapsed time never exceeds
\* duration plus one poll timeout; and every monitor() that runs returns.
C18_MonitorTimeBounded ==
    /\ [][IsPoll => (Top.elapsed < Top.duration /\ op'.calls[1].arg = 100)]_vars
    /\ [](\A i \in DOMAIN mon :
            ~mon[i].cb_took_time => mon[i].elapsed <= mon[i].duration + 1)
    /\ (mon # <<>>) ~> (mon = <<>>)

C18_Witness ==
    /\ op.name = "monitor"
    /\ op.how = "expired"
    /\ op.arg = 2
    /\ op.result = 0
    /\ op.calls = <<>>
    /\ mon = <<>>

\* C17: the destructor runs close(): stop then release for a Started session,
\* release for an Initialized one, no transport call for a Closed one; after it no
\* handle is bound.  (Destroyed in any state that calls which ran to their return
\* leave it in.)
C17_DestructorCloses ==
    Whole =>
    /\ (op.name = "__del__"
          => /\ Fns(op.calls) = CASE op.pre = "Started" -> <<"reset", "exit">>
                                  [] op.pre = "Initialized" -> <<"exit">>
                                  [] OTHER -> <<>>
             /\ Closed)
    /\ (~alive => (op.name = "__del__" /\ handles = 0))

C17_Witness ==
    /\ ~alive
    /\ op.name = "__del__"
    /\ op.pre = "Initialized"
    /\ Fns(op.calls) = <<"exit">>
    /\ handles = 0

\* C19: is_started implies is_initialized; the channel index is -1 exactly when the
\* session is not initialized; a successful open sets it to the index passed and no
\* other step changes it except to -1.  The sequences are of calls that ran to
\* their return.
C19_StateConsistent ==
    /\ [](Whole => (is_started => is_initialized))
    /\ [](Whole => ((channel = -1) <=> ~is_initialized))
    /\ [][Whole'
            => IF op'.name = "open" /\ op'.result = CANERR_NOERROR
               THEN channel' = op'.arg
               ELSE channel' = channel \/ channel' = -1]_vars

C19_Witness ==
    /\ op.name = "open"
    /\ op.pre = "Started"
    /\ op.arg = 1
    /\ op.result = CANERR_NOERROR
    /\ channel = 1
    /\ is_initialized
    /\ ~is_started

\* C20: when api.start answers 0 the session is Started afterwards; when it answers
\* another status start returns that status and is_initialized, is_started and the
\* channel index are as before the call.
C20_StartFrame ==
    [][(op'.name = "start" /\ op'.calls # <<>>)
        => /\ op'.result = op'.calls[1].ret
           /\ IF op'.calls[1].ret = CANERR_NOERROR
              THEN is_started' /\ is_initialized' /\ channel' = channel
              ELSE UNCHANGED <<is_initialized, is_started, channel>>]_vars

C20_Witness ==
    /\ op.name = "start"
    /\ op.pre = "Started"
    /\ op.result = -99
    /\ is_started
    /\ is_initialized

====
